---- MODULE Spec2Model ----
(***************************************************************************)
(* Model of download_wp_blog.py: the footnote pipeline of one post         *)
(* (extract_existing_footnotes, extract_links_and_convert_to_footnotes,    *)
(* create_organized_footnotes_section) and the batch loop of main.         *)
(*                                                                         *)
(* Text is a sequence of one-character strings; the regular expressions    *)
(* of the source are matched on it character by character, and re.sub is   *)
(* the left-to-right scan for non-overlapping leftmost matches.            *)
(***************************************************************************)
EXTENDS Integers, Sequences, FiniteSets, TLC

VARIABLES
    pc,                 \* position in the program
    content,            \* content_clean of the post (save_post_as_markdown, l.333)
    url_to_filename,    \* the Corpus URL Map (main, l.441)
    ext,                \* what extract_existing_footnotes returned
    hv,                 \* what extract_links_and_convert_to_footnotes returned
    hv2,                \* a second run of the Harvester on hv.text
    section,            \* what create_organized_footnotes_section built
    posts,              \* the fetched list of posts (main, l.433)
    idx,                \* the batch loop's position in posts
    existing_filenames, \* main's set of file names taken so far
    log,                \* one record per post the loop attempted
    files,              \* OUTPUT_DIR: file name -> text written
    index_created       \* create_index_file has run

vars == <<pc, content, url_to_filename, ext, hv, hv2, section,
          posts, idx, existing_filenames, log, files, index_created>>

(***************************************************************************)
(* Bounds of the model.                                                    *)
(***************************************************************************)
MaxFrags == 3
MaxPosts == 3

(***************************************************************************)
(* Characters and strings.                                                 *)
(***************************************************************************)
DigitChars == <<"0", "1", "2", "3", "4", "5", "6", "7", "8", "9">>
Digit == {DigitChars[k] : k \in 1..10}

UpperChars == <<"A", "B", "C", "D", "E", "F", "G", "H", "I", "J", "K", "L", "M",
                "N", "O", "P", "Q", "R", "S", "T", "U", "V", "W", "X", "Y", "Z">>
LowerChars == <<"a", "b", "c", "d", "e", "f", "g", "h", "i", "j", "k", "l", "m",
                "n", "o", "p", "q", "r", "s", "t", "u", "v", "w", "x", "y", "z">>

\* the lower-case letter of each upper-case letter
ToLower ==
    [c \in {UpperChars[k] : k \in 1..26} |->
        LowerChars[CHOOSE k \in 1..26 : UpperChars[k] = c]]

\* str.lower() of one character
Lower(c) == IF c \in DOMAIN ToLower THEN ToLower[c] ELSE c

\* str.lower()
LowerStr(s) == [k \in 1..Len(s) |-> Lower(s[k])]

\* str(n) of a non-negative integer, as the f-strings format it
RECURSIVE Str(_)
Str(n) ==
    IF n < 10 THEN <<DigitChars[n + 1]>>
    ELSE Str(n \div 10) \o <<DigitChars[(n % 10) + 1]>>

\* str.isdigit()
isdigit(s) == Len(s) > 0 /\ \A k \in 1..Len(s) : s[k] \in Digit

\* s[i:].startswith(p), i counted from 1
StartsWithAt(s, i, p) ==
    /\ i + Len(p) - 1 <= Len(s)
    /\ SubSeq(s, i, i + Len(p) - 1) = p

\* str.startswith
startswith(s, p) == StartsWithAt(s, 1, p)

\* needle in haystack
Contains(haystack, needle) ==
    \E i \in 1..(Len(haystack) - Len(needle) + 1) : StartsWithAt(haystack, i, needle)

\* str.rstrip('/')
RECURSIVE rstrip_slash(_)
rstrip_slash(s) ==
    IF Len(s) > 0 /\ s[Len(s)] = "/" THEN rstrip_slash(SubSeq(s, 1, Len(s) - 1)) ELSE s

\* the least element of a non-empty set of integers
Min(S) == CHOOSE x \in S : \A y \in S : x <= y

\* the end of a greedy run of characters of class C starting at i: the first
\* index from i on that is past the end of s or holds a character outside C
RunEnd(s, i, C) ==
    LET outside == {j \in i..Len(s) : s[j] \notin C}
    IN  IF i > Len(s) THEN i
        ELSE IF outside = {} THEN Len(s) + 1
        ELSE Min(outside)

\* the same for a negated class [^...]
RunEndNot(s, i, Stop) ==
    LET stops == {j \in i..Len(s) : s[j] \in Stop}
    IN  IF i > Len(s) THEN i
        ELSE IF stops = {} THEN Len(s) + 1
        ELSE Min(stops)

RECURSIVE Flatten(_)
Flatten(ss) == IF ss = <<>> THEN <<>> ELSE Head(ss) \o Flatten(Tail(ss))

EmptyMap == [k \in {} |-> 0]

NoMatch == [ok |-> FALSE, end |-> 0, g1 |-> <<>>, g2 |-> <<>>]

\* f"[^{n}]"
FootnoteRef(n) == <<"[", "^">> \o Str(n) \o <<"]">>

(***************************************************************************)
(* extract_existing_footnotes.  The state threaded through the passes is   *)
(* [out, refs, defs, counter, subs]: the text built so far, footnote_refs, *)
(* footnote_definitions, footnote_counter, and the replacements the        *)
(* callbacks returned, in order.                                           *)
(***************************************************************************)

\* r'\[\[(\d+)\]\]\(([^)]+)\)' matched at position i
WpMatch(s, i) ==
    LET d == RunEnd(s, i + 2, Digit)
        u == RunEndNot(s, d + 3, {")"})
    IN  IF /\ StartsWithAt(s, i, <<"[", "[">>)
           /\ d > i + 2
           /\ StartsWithAt(s, d, <<"]", "]", "(">>)
           /\ u > d + 3
           /\ u <= Len(s)
        THEN [ok |-> TRUE, end |-> u + 1,
              g1 |-> SubSeq(s, i + 2, d - 1), g2 |-> SubSeq(s, d + 3, u - 1)]
        ELSE NoMatch

\* the positions at which the pattern matches
WpAt(s) == {j \in 1..Len(s) : WpMatch(s, j).ok}

extract_wp_footnotes(m, st) ==
    LET original_num == m.g1
        url == m.g2
        st1 == IF original_num \notin DOMAIN st.refs
               THEN [st EXCEPT !.counter = @ + 1,
                               !.refs = (original_num :> (st.counter + 1)) @@ @,
                               !.defs = ((st.counter + 1) :> url) @@ @]
               ELSE st
    IN  [st1 EXCEPT !.out = @ \o FootnoteRef(st1.refs[original_num]),
                    !.subs = Append(@, [pass |-> 1, label |-> original_num,
                                        url |-> url,
                                        num |-> st1.refs[original_num]])]

\* re.sub from position i on: the text up to the leftmost match is copied,
\* the match is replaced by what the callback returns, and the scan goes on
\* after the match; at is the set of positions where the pattern matches
RECURSIVE SubWp(_, _, _, _)
SubWp(s, i, at, st) ==
    LET rest == {j \in at : j >= i}
    IN  IF rest = {} THEN [st EXCEPT !.out = @ \o SubSeq(s, i, Len(s))]
        ELSE LET j == Min(rest)
                 m == WpMatch(s, j)
             IN  SubWp(s, m.end, at,
                        extract_wp_footnotes(m, [st EXCEPT !.out = @ \o SubSeq(s, i, j - 1)]))

\* r'\[\^([^\]]+)\]' matched at position i
StdMatch(s, i) ==
    LET e == RunEndNot(s, i + 2, {"]"})
    IN  IF /\ StartsWithAt(s, i, <<"[", "^">>)
           /\ e > i + 2
           /\ e <= Len(s)
        THEN [ok |-> TRUE, end |-> e + 1, g1 |-> SubSeq(s, i + 2, e - 1), g2 |-> <<>>]
        ELSE NoMatch

\* the positions at which the pattern matches
StdAt(s) == {j \in 1..Len(s) : StdMatch(s, j).ok}

\* re.findall from position i on: group 1 of the leftmost match, then the
\* matches after it; at is the set of positions where the pattern matches
RECURSIVE FindStdFrom(_, _, _)
FindStdFrom(s, i, at) ==
    LET rest == {j \in at : j >= i}
    IN  IF rest = {} THEN <<>>
        ELSE LET m == StdMatch(s, Min(rest))
             IN  <<m.g1>> \o FindStdFrom(s, m.end, at)

\* re.findall(r'\[\^([^\]]+)\]', s)
FindStd(s) == FindStdFrom(s, 1, StdAt(s))

\* the loop over existing_standard_footnotes: numbers are assigned, the text
\* is not touched
RECURSIVE StdLoop(_, _, _)
StdLoop(found, k, st) ==
    IF k > Len(found) THEN st
    ELSE LET ref == found[k]
         IN  IF ref \notin DOMAIN st.refs /\ ~isdigit(ref)
             THEN StdLoop(found, k + 1,
                          [st EXCEPT !.counter = @ + 1,
                                     !.refs = (ref :> (st.counter + 1)) @@ @])
             ELSE StdLoop(found, k + 1, st)

\* r'\((C+)\)' matched at position i, for a character class C
ParenMatch(s, i, C) ==
    LET e == RunEnd(s, i + 1, C)
    IN  IF /\ i <= Len(s)
           /\ s[i] = "("
           /\ e > i + 1
           /\ e <= Len(s)
           /\ s[e] = ")"
        THEN [ok |-> TRUE, end |-> e + 1, g1 |-> SubSeq(s, i + 1, e - 1), g2 |-> <<>>]
        ELSE NoMatch

\* the positions at which the pattern matches
ParenAt(s, C) == {j \in 1..Len(s) : ParenMatch(s, j, C).ok}

\* the body shared by extract_paren_nums and extract_paren_roman
AssignKey(pass, label, ref_key, st) ==
    LET st1 == IF ref_key \notin DOMAIN st.refs
               THEN [st EXCEPT !.counter = @ + 1,
                               !.refs = (ref_key :> (st.counter + 1)) @@ @]
               ELSE st
    IN  [st1 EXCEPT !.out = @ \o FootnoteRef(st1.refs[ref_key]),
                    !.subs = Append(@, [pass |-> pass, label |-> label,
                                        url |-> <<>>,
                                        num |-> st1.refs[ref_key]])]

\* f"paren_{num}"
paren_key(num) == <<"p", "a", "r", "e", "n", "_">> \o num

extract_paren_nums(m, st) == AssignKey(3, m.g1, paren_key(m.g1), st)

\* re.sub from position i on: the text up to the leftmost match is copied,
\* the match is replaced by what the callback returns, and the scan goes on
\* after the match; at is the set of positions where the pattern matches
RECURSIVE SubParenNums(_, _, _, _)
SubParenNums(s, i, at, st) ==
    LET rest == {j \in at : j >= i}
    IN  IF rest = {} THEN [st EXCEPT !.out = @ \o SubSeq(s, i, Len(s))]
        ELSE LET j == Min(rest)
                 m == ParenMatch(s, j, Digit)
             IN  SubParenNums(s, m.end, at,
                        extract_paren_nums(m, [st EXCEPT !.out = @ \o SubSeq(s, i, j - 1)]))

\* [ivxlcdm] under re.IGNORECASE
RomanChars == {"i", "v", "x", "l", "c", "d", "m", "I", "V", "X", "L", "C", "D", "M"}

\* f"roman_{roman}": the matched text as it stands, in its own letter case
roman_key(roman) == <<"r", "o", "m", "a", "n", "_">> \o roman

extract_paren_roman(m, st) == AssignKey(4, m.g1, roman_key(m.g1), st)

\* re.sub from position i on: the text up to the leftmost match is copied,
\* the match is replaced by what the callback returns, and the scan goes on
\* after the match; at is the set of positions where the pattern matches
RECURSIVE SubParenRoman(_, _, _, _)
SubParenRoman(s, i, at, st) ==
    LET rest == {j \in at : j >= i}
    IN  IF rest = {} THEN [st EXCEPT !.out = @ \o SubSeq(s, i, Len(s))]
        ELSE LET j == Min(rest)
                 m == ParenMatch(s, j, RomanChars)
             IN  SubParenRoman(s, m.end, at,
                        extract_paren_roman(m, [st EXCEPT !.out = @ \o SubSeq(s, i, j - 1)]))

\* pass 1: WordPress-style footnotes, on the text handed in
Pass1(content_md) ==
    SubWp(content_md, 1, WpAt(content_md),
          [out |-> <<>>, refs |-> EmptyMap, defs |-> EmptyMap,
           counter |-> 0, subs |-> <<>>])

\* pass 2: standard markers, on what pass 1 left
Pass2(p1) == StdLoop(FindStd(p1.out), 1, p1)

\* pass 3: numbers in parentheses, on what pass 2 left
Pass3(p2) ==
    SubParenNums(p2.out, 1, ParenAt(p2.out, Digit), [p2 EXCEPT !.out = <<>>])

\* pass 4: roman numerals in parentheses, on what pass 3 left
Pass4(p3) ==
    SubParenRoman(p3.out, 1, ParenAt(p3.out, RomanChars), [p3 EXCEPT !.out = <<>>])

\* return content_md, footnote_refs, footnote_definitions (with the counter
\* and the replacements made)
ExtractorResult(p4) ==
    [text |-> p4.out, refs |-> p4.refs, defs |-> p4.defs,
     counter |-> p4.counter, subs |-> p4.subs]

extract_existing_footnotes(content_md) ==
    ExtractorResult(Pass4(Pass3(Pass2(Pass1(content_md)))))

(***************************************************************************)
(* extract_links_and_convert_to_footnotes.  The state threaded through is  *)
(* [out, defs, counter, subs].                                             *)
(***************************************************************************)

\* r'\[([^\]]+)\]\(([^)]+)\)' matched at position i
LinkMatch(s, i) ==
    LET t == RunEndNot(s, i + 1, {"]"})
        u == RunEndNot(s, t + 2, {")"})
    IN  IF /\ i <= Len(s)
           /\ s[i] = "["
           /\ t > i + 1
           /\ StartsWithAt(s, t, <<"]", "(">>)
           /\ u > t + 2
           /\ u <= Len(s)
        THEN [ok |-> TRUE, end |-> u + 1, g0 |-> SubSeq(s, i, u),
              g1 |-> SubSeq(s, i + 1, t - 1), g2 |-> SubSeq(s, t + 2, u - 1)]
        ELSE NoMatch

\* the positions at which the pattern matches
LinkAt(s) == {j \in 1..Len(s) : LinkMatch(s, j).ok}

\* the word the second guard of replace_markdown_links looks for
LinkWord == <<"L", "i", "n", "k">>

\* replace_markdown_links as it would be if it gave a URL it has already seen
\* the number it gave it before
replace_markdown_links_dedup(m, st) ==
    LET text == m.g1
        url == m.g2
        seen == {n \in DOMAIN st.defs : st.defs[n] = url}
    IN  IF startswith(text, <<"^">>) THEN [st EXCEPT !.out = @ \o m.g0]
        ELSE IF startswith(url, LinkWord) THEN [st EXCEPT !.out = @ \o m.g0]
        ELSE IF seen # {}
        THEN [st EXCEPT !.out = @ \o text \o FootnoteRef(Min(seen)),
                        !.subs = Append(@, [kind |-> "link", text |-> text,
                                            url |-> url, num |-> Min(seen)])]
        ELSE [st EXCEPT !.counter = @ + 1,
                        !.defs = ((st.counter + 1) :> url) @@ @,
                        !.out = @ \o text \o FootnoteRef(st.counter + 1),
                        !.subs = Append(@, [kind |-> "link", text |-> text,
                                            url |-> url, num |-> st.counter + 1])]

replace_markdown_links(m, st) ==
    LET text == m.g1
        url == m.g2
    IN  IF startswith(text, <<"^">>) THEN [st EXCEPT !.out = @ \o m.g0]
        ELSE IF startswith(url, LinkWord) THEN [st EXCEPT !.out = @ \o m.g0]
        ELSE [st EXCEPT !.counter = @ + 1,
                        !.defs = ((st.counter + 1) :> url) @@ @,
                        !.out = @ \o text \o FootnoteRef(st.counter + 1),
                        !.subs = Append(@, [kind |-> "link", text |-> text,
                                            url |-> url, num |-> st.counter + 1])]

\* re.sub from position i on: the text up to the leftmost match is copied,
\* the match is replaced by what the callback returns, and the scan goes on
\* after the match; at is the set of positions where the pattern matches
RECURSIVE SubLinks(_, _, _, _)
SubLinks(s, i, at, st) ==
    LET rest == {j \in at : j >= i}
    IN  IF rest = {} THEN [st EXCEPT !.out = @ \o SubSeq(s, i, Len(s))]
        ELSE LET j == Min(rest)
                 m == LinkMatch(s, j)
             IN  SubLinks(s, m.end, at,
                        replace_markdown_links(m, [st EXCEPT !.out = @ \o SubSeq(s, i, j - 1)]))

\* the characters [^\s\]\)\}\'"<>] excludes
UrlStop == {" ", "\t", "\n", "\r", "\f", "]", ")", "}", "'", "\"", "<", ">"}

\* r'https?://[^\s\]\)\}\'"<>]+' matched at position i
UrlMatch(s, i) ==
    LET k == IF StartsWithAt(s, i + 4, <<"s", ":", "/", "/">>) THEN i + 8
             ELSE IF StartsWithAt(s, i + 4, <<":", "/", "/">>) THEN i + 7
             ELSE 0
        e == RunEndNot(s, k, UrlStop)
    IN  IF /\ StartsWithAt(s, i, <<"h", "t", "t", "p">>)
           /\ k > 0
           /\ e > k
        THEN [ok |-> TRUE, end |-> e, g0 |-> SubSeq(s, i, e - 1),
              g1 |-> <<>>, g2 |-> <<>>]
        ELSE NoMatch

\* the positions at which the pattern matches
UrlAt(s) == {j \in 1..Len(s) : UrlMatch(s, j).ok}

\* the text put in place of a bare URL, before its footnote reference
Placeholder == <<"[", "L", "i", "n", "k", "]">>

replace_plain_urls(m, st) ==
    LET url == m.g0
    IN  [st EXCEPT !.counter = @ + 1,
                   !.defs = ((st.counter + 1) :> url) @@ @,
                   !.out = @ \o Placeholder \o FootnoteRef(st.counter + 1),
                   !.subs = Append(@, [kind |-> "url", text |-> <<>>,
                                       url |-> url, num |-> st.counter + 1])]

\* re.sub from position i on: the text up to the leftmost match is copied,
\* the match is replaced by what the callback returns, and the scan goes on
\* after the match; at is the set of positions where the pattern matches
RECURSIVE SubUrls(_, _, _, _)
SubUrls(s, i, at, st) ==
    LET rest == {j \in at : j >= i}
    IN  IF rest = {} THEN [st EXCEPT !.out = @ \o SubSeq(s, i, Len(s))]
        ELSE LET j == Min(rest)
                 m == UrlMatch(s, j)
             IN  SubUrls(s, m.end, at,
                        replace_plain_urls(m, [st EXCEPT !.out = @ \o SubSeq(s, i, j - 1)]))

\* the markdown links, on the text handed in, counting on from start
LinksPass(content_md, start) ==
    SubLinks(content_md, 1, LinkAt(content_md),
             [out |-> <<>>, defs |-> EmptyMap, counter |-> start, subs |-> <<>>])

\* the plain URLs, on what the link pass left
UrlsPass(l) == SubUrls(l.out, 1, UrlAt(l.out), [l EXCEPT !.out = <<>>])

\* return content_md, footnote_definitions (with the replacements made)
HarvesterResult(u) == [text |-> u.out, defs |-> u.defs, subs |-> u.subs]

extract_links_and_convert_to_footnotes(content_md, start) ==
    HarvesterResult(UrlsPass(LinksPass(content_md, start)))

\* existing_footnote_count = len(existing_footnote_defs)
existing_footnote_count(existing_footnote_defs) ==
    Cardinality(DOMAIN existing_footnote_defs)

(***************************************************************************)
(* create_organized_footnotes_section                                      *)
(***************************************************************************)
AcademicDomains == {
    <<"b", "i", "b", "l", "e">>,
    <<"s", "c", "h", "o", "l", "a", "r">>,
    <<"j", "s", "t", "o", "r">>,
    <<"a", "c", "a", "d", "e", "m", "i", "a">>,
    <<"r", "e", "s", "e", "a", "r", "c", "h", "g", "a", "t", "e">>,
    <<"p", "u", "b", "m", "e", "d">>,
    <<"n", "d", ".", "e", "d", "u">>,
    <<"y", "a", "l", "e", ".", "e", "d", "u">>,
    <<"h", "a", "r", "v", "a", "r", "d", ".", "e", "d", "u">>,
    <<"c", "a", "m", "b", "r", "i", "d", "g", "e", ".", "o", "r", "g">>,
    <<"o", "x", "f", "o", "r", "d">> }

\* any(domain in url.lower() for domain in [...])
IsAcademic(url) ==
    LET lowered == LowerStr(url)
    IN  \E domain \in AcademicDomains : Contains(lowered, domain)

\* the branch of the if / elif / else an entry takes
Category(url, map) ==
    IF rstrip_slash(url) \in DOMAIN map THEN "internal"
    ELSE IF IsAcademic(url) THEN "academic"
    ELSE "external"

\* f"[^{footnote_num}]: [[{filename}]]" and f"[^{footnote_num}]: {url}"
DefinitionLine(footnote_num, url, map) ==
    <<"[", "^">> \o Str(footnote_num) \o <<"]", ":", " ">> \o
    ( IF Category(url, map) = "internal"
      THEN <<"[", "[">> \o map[rstrip_slash(url)] \o <<"]", "]">>
      ELSE url )

\* sorted(all_footnotes.items()): the numbers in ascending order
RECURSIVE SortedKeys(_)
SortedKeys(S) ==
    IF S = {} THEN <<>>
    ELSE LET lo == CHOOSE x \in S : \A y \in S : x <= y
         IN  <<lo>> \o SortedKeys(S \ {lo})

\* "\n".join(lines)
RECURSIVE JoinLines(_)
JoinLines(lines) ==
    IF lines = <<>> THEN <<>>
    ELSE IF Len(lines) = 1 THEN lines[1]
    ELSE lines[1] \o <<"\n">> \o JoinLines(Tail(lines))

HeaderReferences ==
    <<"\n", "#", "#", " ", "R", "e", "f", "e", "r", "e", "n", "c", "e", "s", "\n">>
HeaderInternal ==
    <<"#", "#", "#", " ", "R", "e", "l", "a", "t", "e", "d", " ",
      "A", "r", "t", "i", "c", "l", "e", "s">>
HeaderAcademic ==
    <<"#", "#", "#", " ", "A", "c", "a", "d", "e", "m", "i", "c", " ",
      "S", "o", "u", "r", "c", "e", "s">>
HeaderExternal ==
    <<"#", "#", "#", " ", "E", "x", "t", "e", "r", "n", "a", "l", " ",
      "L", "i", "n", "k", "s">>

\* one record per entry of sorted_footnotes: its number, the branch it takes
\* and the line appended for it
SectionEntry(footnote_num, url, map) ==
    [num |-> footnote_num,
     category |-> Category(url, map),
     line |-> DefinitionLine(footnote_num, url, map)]

\* for footnote_num, url in sorted_footnotes
SectionEntries(all_footnotes, sorted_footnotes, map) ==
    [k \in 1..Len(sorted_footnotes) |->
        SectionEntry(sorted_footnotes[k], all_footnotes[sorted_footnotes[k]], map)]

\* internal_links, academic_sources or external_links: the number and the line
\* of each entry that took that branch, in order
NumAndLine(picked) ==
    [j \in 1..Len(picked) |-> [num |-> picked[j].num, line |-> picked[j].line]]

InCategory(entries, c) == NumAndLine(SelectSeq(entries, LAMBDA e : e.category = c))

LinesOf(list) == [j \in 1..Len(list) |-> list[j].line]

\* a header, the lines under it and the empty line that ends the subsection
Subsection(header, list, closing) ==
    IF list = <<>> THEN <<>> ELSE <<header>> \o LinesOf(list) \o closing

\* footnotes_lines joined
SectionText(internal_links, academic_sources, external_links) ==
    JoinLines(<<HeaderReferences>>
              \o Subsection(HeaderInternal, internal_links, << <<>> >>)
              \o Subsection(HeaderAcademic, academic_sources, << <<>> >>)
              \o Subsection(HeaderExternal, external_links, <<>>))

RenderSection(internal_links, academic_sources, external_links) ==
    [internal_links |-> internal_links,
     academic_sources |-> academic_sources,
     external_links |-> external_links,
     text |-> SectionText(internal_links, academic_sources, external_links)]

SectionOf(entries) ==
    RenderSection(InCategory(entries, "internal"), InCategory(entries, "academic"),
                  InCategory(entries, "external"))

\* all_footnotes is existing_footnote_defs updated with link_footnote_defs
SectionOfAll(all_footnotes, map) ==
    IF DOMAIN all_footnotes = {}
    THEN [internal_links |-> <<>>, academic_sources |-> <<>>,
          external_links |-> <<>>, text |-> <<>>]
    ELSE SectionOf(SectionEntries(all_footnotes, SortedKeys(DOMAIN all_footnotes), map))

create_organized_footnotes_section(existing_footnote_defs, link_footnote_defs, map) ==
    SectionOfAll(link_footnote_defs @@ existing_footnote_defs, map)

(***************************************************************************)
(* clean_title_for_filename and build_url_to_filename_map                  *)
(***************************************************************************)

\* html.unescape, for the one entity the titles of the model use: &amp;
RECURSIVE html_unescape(_)
html_unescape(s) ==
    IF s = <<>> THEN <<>>
    ELSE IF StartsWithAt(s, 1, <<"&", "a", "m", "p", ";">>)
         THEN <<"&">> \o html_unescape(SubSeq(s, 6, Len(s)))
         ELSE <<Head(s)>> \o html_unescape(Tail(s))

\* the characters of forbidden = r'[\*\\"\/<>\:\|\?]'
Forbidden == {"*", "\\", "\"", "/", "<", ">", ":", "|", "?"}

Whitespace == {" ", "\t", "\n", "\r", "\f"}

\* str.strip(' .')
RECURSIVE strip_space_dot(_)
strip_space_dot(s) ==
    IF s = <<>> THEN s
    ELSE IF Head(s) \in {" ", "."} THEN strip_space_dot(Tail(s))
    ELSE IF s[Len(s)] \in {" ", "."} THEN strip_space_dot(SubSeq(s, 1, Len(s) - 1))
    ELSE s

\* re.sub(r'\s+', ' ', s)
RECURSIVE collapse_whitespace(_, _)
collapse_whitespace(s, i) ==
    IF i > Len(s) THEN <<>>
    ELSE IF s[i] \in Whitespace
         THEN <<" ">> \o collapse_whitespace(s, RunEnd(s, i, Whitespace))
         ELSE <<s[i]>> \o collapse_whitespace(s, i + 1)

clean_title_for_filename(title) ==
    LET t1 == html_unescape(title)
        t2 == SelectSeq(t1, LAMBDA c : c \notin Forbidden)
        t3 == strip_space_dot(t2)
        t4 == collapse_whitespace(t3, 1)
    IN  IF t4 = <<>> THEN <<"u", "n", "t", "i", "t", "l", "e", "d">> ELSE t4

\* the loop of build_url_to_filename_map: a later post with the same URL
\* overwrites the entry of an earlier one
RECURSIVE build_url_to_filename_map(_)
build_url_to_filename_map(ps) ==
    IF ps = <<>> THEN EmptyMap
    ELSE LET post == ps[Len(ps)]
             url == rstrip_slash(post.URL)
             filename == clean_title_for_filename(post.title)
         IN  (url :> filename) @@ build_url_to_filename_map(SubSeq(ps, 1, Len(ps) - 1))

(***************************************************************************)
(* Inputs.                                                                 *)
(***************************************************************************)
UrlP == <<"h", "t", "t", "p", ":", "/", "/", "x", ".", "c", "/", "p">>
UrlA == <<"h", "t", "t", "p", ":", "/", "/", "x", ".", "c", "/", "a", "/">>
UrlANoSlash == <<"h", "t", "t", "p", ":", "/", "/", "x", ".", "c", "/", "a">>
UrlBible == <<"h", "t", "t", "p", ":", "/", "/", "x", ".", "c", "/", "b", "i", "b", "l", "e">>
UrlJstor == <<"h", "t", "t", "p", ":", "/", "/", "j", "s", "t", "o", "r", ".", "o", "r", "g">>
UrlZ == <<"h", "t", "t", "p", ":", "/", "/", "x", ".", "c", "/", "z">>

WpFootnote(label, url) == <<"[", "[">> \o label \o <<"]", "]", "(">> \o url \o <<")">>
InlineLink(text, url) == <<"[">> \o text \o <<"]", "(">> \o url \o <<")">>
Marker(tag) == <<"[", "^">> \o tag \o <<"]">>
Paren(inner) == <<"(">> \o inner \o <<")">>

\* the pieces the texts of the model are put together from
Fragments == {
    WpFootnote(<<"1">>, UrlP),
    WpFootnote(<<"1">>, UrlP) \o WpFootnote(<<"1">>, UrlA),
    WpFootnote(<<"2">>, UrlP),
    Marker(<<"n", "o", "t", "e">>),
    Marker(<<"1">>),
    Marker(<<"p", "a", "r", "e", "n", "_", "1">>),
    Paren(<<"1">>),
    Paren(<<"I", "V">>),
    Paren(<<"i", "v">>),
    InlineLink(<<"t">>, UrlP),
    InlineLink(<<"t">>, UrlBible),
    UrlJstor,
    Paren(UrlP),
    <<"[">>,
    <<" ">> }

\* comprehensive_content_cleaner returns a text of these characters unchanged
\* when it has no white space at either end and does not begin with a
\* footnote definition "[^tag]:"; content_clean is such a text
CleanerFixpoint(t) ==
    /\ t # <<>>
    /\ t[1] \notin Whitespace
    /\ t[Len(t)] \notin Whitespace
    /\ ~(StdMatch(t, 1).ok /\ StdMatch(t, 1).end <= Len(t) /\ t[StdMatch(t, 1).end] = ":")

\* the texts of at most n fragments
AllTexts(n) == { Flatten(fs) : fs \in UNION { [1..k -> Fragments] : k \in 1..n } }

\* those of them that can be content_clean
Texts(n) == { t \in AllTexts(n) : CleanerFixpoint(t) }

\* the posts of the model
Post1 == [URL |-> UrlA, title |-> <<"a">>, has_content |-> TRUE,
          content |-> InlineLink(<<"t">>, UrlZ)]
Post2 == [URL |-> UrlZ, title |-> <<"a", ":">>, has_content |-> TRUE,
          content |-> InlineLink(<<"t">>, UrlA)]
Post3 == [URL |-> UrlANoSlash, title |-> <<"b", " ", "&", "a", "m", "p", ";", " ", " ", "b">>,
          has_content |-> TRUE, content |-> Paren(<<"1">>)]
Post4 == [URL |-> UrlP, title |-> <<" ", ".">>, has_content |-> FALSE,
          content |-> <<>>]
PostKinds == {Post1, Post2, Post3, Post4}

\* the corpora a single post is resolved against
Corpora == { <<Post1>>, <<Post2>> }

Blank == <<>>

(***************************************************************************)
(* One post through save_post_as_markdown's footnote pipeline.             *)
(***************************************************************************)
Init ==
    /\ pc = "post_start"
    /\ content \in Texts(MaxFrags)
    /\ url_to_filename \in { build_url_to_filename_map(c) : c \in Corpora }
    /\ ext = Blank
    /\ hv = Blank
    /\ hv2 = Blank
    /\ section = Blank
    /\ posts = <<>>
    /\ idx = 0
    /\ existing_filenames = {}
    /\ log = <<>>
    /\ files = EmptyMap
    /\ index_created = FALSE

Extract ==
    /\ pc = "post_start"
    /\ ext' = extract_existing_footnotes(content)
    /\ pc' = "extracted"
    /\ UNCHANGED <<content, url_to_filename, hv, hv2, section,
                   posts, idx, existing_filenames, log, files, index_created>>

Harvest ==
    /\ pc = "extracted"
    /\ hv' = extract_links_and_convert_to_footnotes(ext.text,
                                                    existing_footnote_count(ext.defs))
    /\ pc' = "harvested"
    /\ UNCHANGED <<content, url_to_filename, ext, hv2, section,
                   posts, idx, existing_filenames, log, files, index_created>>

Resolve ==
    /\ pc = "harvested"
    /\ section' = create_organized_footnotes_section(ext.defs, hv.defs, url_to_filename)
    /\ pc' = "post_done"
    /\ UNCHANGED <<content, url_to_filename, ext, hv, hv2,
                   posts, idx, existing_filenames, log, files, index_created>>

Next == Extract \/ Harvest \/ Resolve

Spec == Init /\ [][Next]_vars

(***************************************************************************)
(* The Harvester run on a text, and run again on the text it produced.     *)
(***************************************************************************)
InitHarvest ==
    /\ pc = "harvest_start"
    /\ content \in AllTexts(MaxFrags)
    /\ url_to_filename = EmptyMap
    /\ ext = Blank
    /\ hv = Blank
    /\ hv2 = Blank
    /\ section = Blank
    /\ posts = <<>>
    /\ idx = 0
    /\ existing_filenames = {}
    /\ log = <<>>
    /\ files = EmptyMap
    /\ index_created = FALSE

HarvestFirst ==
    /\ pc = "harvest_start"
    /\ hv' = extract_links_and_convert_to_footnotes(content, 0)
    /\ pc' = "harvested_once"
    /\ UNCHANGED <<content, url_to_filename, ext, hv2, section,
                   posts, idx, existing_filenames, log, files, index_created>>

HarvestAgain ==
    /\ pc = "harvested_once"
    /\ hv2' = extract_links_and_convert_to_footnotes(hv.text,
                                                     existing_footnote_count(hv.defs))
    /\ pc' = "harvested_twice"
    /\ UNCHANGED <<content, url_to_filename, ext, hv, section,
                   posts, idx, existing_filenames, log, files, index_created>>

NextHarvest == HarvestFirst \/ HarvestAgain

SpecHarvest == InitHarvest /\ [][NextHarvest]_vars

(***************************************************************************)
(* main: the map is built from the whole list, then the loop saves the     *)
(* posts one by one, then the index file is written.                       *)
(***************************************************************************)
MdSuffix == <<".", "m", "d">>

\* the while loop of save_post_as_markdown: f"{base_filename} ({counter}).md"
RECURSIVE UniqueFilename(_, _, _, _)
UniqueFilename(filename, base_filename, counter, existing) ==
    IF filename \in existing
    THEN UniqueFilename(base_filename \o <<" ", "(">> \o Str(counter) \o <<")">> \o MdSuffix,
                        base_filename, counter + 1, existing)
    ELSE filename

\* the file name save_post_as_markdown settles on for a post
PostFilename(post, existing) ==
    LET filename_title == clean_title_for_filename(post.title)
    IN  UniqueFilename(filename_title \o MdSuffix, filename_title, 1, existing)

\* content_final + footnotes_section of a post (the front matter, which is
\* built from the title, the date and the tags, is left out of the file text)
BodyText(e, h, map) ==
    h.text \o create_organized_footnotes_section(e.defs, h.defs, map).text

BodyAfterExtraction(e, map) ==
    BodyText(e,
             extract_links_and_convert_to_footnotes(e.text, existing_footnote_count(e.defs)),
             map)

PostBody(post, map) == BodyAfterExtraction(extract_existing_footnotes(post.content), map)

ReadmeName == <<"R", "E", "A", "D", "M", "E", ".", "m", "d">>

InitMain ==
    /\ pc = "main_start"
    /\ posts \in UNION { [1..n -> PostKinds] : n \in 0..MaxPosts }
    /\ content = Blank
    /\ url_to_filename = EmptyMap
    /\ ext = Blank
    /\ hv = Blank
    /\ hv2 = Blank
    /\ section = Blank
    /\ idx = 0
    /\ existing_filenames = {}
    /\ log = <<>>
    /\ files = EmptyMap
    /\ index_created = FALSE

\* if not posts: return
NoPosts ==
    /\ pc = "main_start"
    /\ posts = <<>>
    /\ pc' = "main_exit"
    /\ UNCHANGED <<content, url_to_filename, ext, hv, hv2, section,
                   posts, idx, existing_filenames, log, files, index_created>>

BuildMap ==
    /\ pc = "main_start"
    /\ posts # <<>>
    /\ url_to_filename' = build_url_to_filename_map(posts)
    /\ existing_filenames' = {}
    /\ idx' = 1
    /\ pc' = "loop"
    /\ UNCHANGED <<content, ext, hv, hv2, section, posts, log, files, index_created>>

\* the loop as it would be if the except clause left it
AbortOnException == "main_aborted"

\* where the loop goes after the except clause has caught a post's exception
AfterException == "loop"

\* save_post_as_markdown runs to its end
SavePost ==
    /\ pc = "loop"
    /\ idx <= Len(posts)
    /\ posts[idx].has_content
    /\ LET filename == PostFilename(posts[idx], existing_filenames)
       IN  /\ existing_filenames' = existing_filenames \cup {filename}
           /\ files' = (filename :> PostBody(posts[idx], url_to_filename)) @@ files
           /\ log' = Append(log, [post |-> idx, outcome |-> "saved",
                                  filename |-> filename])
    /\ idx' = idx + 1
    /\ UNCHANGED <<pc, content, url_to_filename, ext, hv, hv2, section,
                   posts, index_created>>

\* post['content'] raises KeyError before anything is changed; main catches it
SavePostKeyError ==
    /\ pc = "loop"
    /\ idx <= Len(posts)
    /\ ~posts[idx].has_content
    /\ log' = Append(log, [post |-> idx, outcome |-> "error", filename |-> <<>>])
    /\ idx' = idx + 1
    /\ pc' = AfterException
    /\ UNCHANGED <<content, url_to_filename, ext, hv, hv2, section,
                   posts, existing_filenames, files, index_created>>

\* open() or f.write() raises after the file name was taken; main catches it
SavePostWriteError ==
    /\ pc = "loop"
    /\ idx <= Len(posts)
    /\ posts[idx].has_content
    /\ existing_filenames' =
           existing_filenames \cup {PostFilename(posts[idx], existing_filenames)}
    /\ log' = Append(log, [post |-> idx, outcome |-> "error", filename |-> <<>>])
    /\ idx' = idx + 1
    /\ pc' = AfterException
    /\ UNCHANGED <<content, url_to_filename, ext, hv, hv2, section,
                   posts, files, index_created>>

\* create_index_file(len(posts)) writes README.md, which states the count
CreateIndex ==
    /\ pc = "loop"
    /\ idx > Len(posts)
    /\ files' = (ReadmeName :> Str(Len(posts))) @@ files
    /\ index_created' = TRUE
    /\ pc' = "main_done"
    /\ UNCHANGED <<content, url_to_filename, ext, hv, hv2, section,
                   posts, idx, existing_filenames, log>>

NextMain ==
    \/ NoPosts
    \/ BuildMap
    \/ SavePost
    \/ SavePostKeyError
    \/ SavePostWriteError
    \/ CreateIndex

SpecMain == InitMain /\ [][NextMain]_vars

(***************************************************************************)
(* The claims.                                                             *)
(***************************************************************************)
PostProcessed == pc \in {"harvested", "post_done"}

\* the numbers the Extractor assigned, and those the Harvester assigned
ExtNums == {ext.refs[k] : k \in DOMAIN ext.refs}
HarvNums == {hv.subs[j].num : j \in 1..Len(hv.subs)}

\* the positions in ext.subs of the replacements a pass made
SubsOfPass(p) == {i \in 1..Len(ext.subs) : ext.subs[i].pass = p}

\* the positions in a Harvester result of the inline links it converted
LinkSubs(h) == {i \in 1..Len(h.subs) : h.subs[i].kind = "link"}

\* the numbers that have a definition line in the rendered section
NumsOf(list) == {list[j].num : j \in 1..Len(list)}
DefinedNums ==
    NumsOf(section.internal_links) \cup NumsOf(section.academic_sources)
        \cup NumsOf(section.external_links)

\* C1: the footnote numbers of a post are a bijection between the reference
\* identities (the distinct Extractor keys and the harvested occurrences) and
\* 1..N: no two keys and no two harvested occurrences share a number, every
\* Harvester number is greater than every Extractor number, and the numbers
\* used are exactly 1..N, N = number of keys + number of harvested occurrences.
C1_NumberingBijection ==
    PostProcessed =>
        LET N == Cardinality(DOMAIN ext.refs) + Len(hv.subs)
        IN  /\ \A k1, k2 \in DOMAIN ext.refs : k1 # k2 => ext.refs[k1] # ext.refs[k2]
            /\ \A i, j \in 1..Len(hv.subs) : i # j => hv.subs[i].num # hv.subs[j].num
            /\ \A k \in DOMAIN ext.refs : \A j \in 1..Len(hv.subs) :
                   hv.subs[j].num > ext.refs[k]
            /\ ExtNums \cup HarvNums = 1..N

\* C2: a number the Extractor assigned in passes 2-4 (a number with no entry
\* in footnote_definitions) never is the number of a definition line of the
\* rendered references section.
C2_TargetlessNeverDefined ==
    pc = "post_done" =>
        \A k \in DOMAIN ext.refs :
            ext.refs[k] \notin DOMAIN ext.defs => ext.refs[k] \notin DefinedNums

C4_RomanCaseInsensitive ==
    pc \in {"extracted", "harvested", "post_done"} =>
        \A i, j \in SubsOfPass(4) :
            LowerStr(ext.subs[i].label) = LowerStr(ext.subs[j].label)
                => ext.subs[i].num = ext.subs[j].num

\* C5: occurrences with different Reference Keys never carry the same number
\* in the Extractor's output: the keys have distinct numbers, and a
\* parenthesized decimal is rendered with a number that differs from that of
\* every standard caret marker of the input, be it the number a numeric marker
\* [^N] already shows or the number assigned to a non-numeric tag.
C5_DifferentKeysDifferentNumbers ==
    pc \in {"extracted", "harvested", "post_done"} =>
        LET markers == FindStd(content)
        IN  /\ \A k1, k2 \in DOMAIN ext.refs : k1 # k2 => ext.refs[k1] # ext.refs[k2]
            /\ \A i \in SubsOfPass(3) : \A k \in 1..Len(markers) :
                   IF isdigit(markers[k])
                   THEN Str(ext.subs[i].num) # markers[k]
                   ELSE markers[k] \in DOMAIN ext.refs
                            => ext.refs[markers[k]] # ext.subs[i].num

\* C6: in the final body text every footnote reference marker is [^N] with N a
\* decimal number: no caret marker with a non-numeric tag remains.
C6_AllMarkersNumeric ==
    PostProcessed =>
        LET markers == FindStd(hv.text)
        IN  \A k \in 1..Len(markers) : isdigit(markers[k])

\* the host of a URL: what stands between "://" and the next "/", "?" or "#"
Host(url) ==
    LET schemes == {i \in 1..Len(url) : StartsWithAt(url, i, <<":", "/", "/">>)}
        from == IF schemes = {} THEN 1 ELSE Min(schemes) + 3
    IN  SubSeq(url, from, RunEndNot(url, from, {"/", "?", "#"}) - 1)

\* the subsection the claim gives a URL
ClaimedCategory(url, map) ==
    IF rstrip_slash(url) \in DOMAIN map THEN "internal"
    ELSE IF \E domain \in AcademicDomains : Contains(LowerStr(Host(url)), domain)
         THEN "academic"
    ELSE "external"

SectionList(category) ==
    IF category = "internal" THEN section.internal_links
    ELSE IF category = "academic" THEN section.academic_sources
    ELSE section.external_links

\* C7: every entry with a Target has exactly one definition line, in the
\* subsection this precedence gives: internal iff the URL without its trailing
\* slash is a key of the map, else academic iff the URL's host matches the
\* allow-list, else external.
C7_CategoryByHost ==
    pc = "post_done" =>
        LET all_footnotes == hv.defs @@ ext.defs
        IN  \A n \in DOMAIN all_footnotes :
                \A c \in {"internal", "academic", "external"} :
                    Cardinality({j \in 1..Len(SectionList(c)) : SectionList(c)[j].num = n})
                        = IF c = ClaimedCategory(all_footnotes[n], url_to_filename)
                          THEN 1 ELSE 0

\* C8: a second run of the Harvester leaves every placeholder [Link][^n] of
\* the first run in the text and makes none of them the text or the URL of a
\* new footnote.
C8_PlaceholderUntouched ==
    pc = "harvested_twice" =>
        /\ \A i \in 1..Len(hv.subs) :
               hv.subs[i].kind = "url"
                   => Contains(hv2.text, Placeholder \o FootnoteRef(hv.subs[i].num))
        /\ \A j \in 1..Len(hv2.subs) :
               /\ ~Contains(hv2.subs[j].text, Placeholder)
               /\ ~Contains(hv2.subs[j].url, Placeholder)

\* C9: an exception while a post is processed does not abort the batch: the
\* posts are attempted once each in list order, the loop goes on while posts
\* are left whatever failed before, and the index file is created once all
\* posts have been attempted and only then.
C9_BatchSurvivesFailures ==
    /\ \A k \in 1..Len(log) : log[k].post = k
    /\ Len(log) <= Len(posts)
    /\ (pc \notin {"main_start", "main_exit"} /\ Len(log) < Len(posts))
           => (pc = "loop" /\ idx = Len(log) + 1)
    /\ (pc \notin {"main_start", "main_exit"} /\ Len(log) = Len(posts))
           => (pc = "main_done" \/ (pc = "loop" /\ idx = Len(posts) + 1))
    /\ index_created <=> pc = "main_done"
    /\ pc = "main_done" => ReadmeName \in DOMAIN files

C9_Witness ==
    /\ pc = "main_done"
    /\ index_created
    /\ \E k \in 1..(Len(log) - 1) :
           /\ log[k].outcome = "error"
           /\ log[k + 1].outcome = "saved"

\* C10: the Corpus URL Map names, for the URL of every post that was written,
\* the file the post was written to.
C10_MapNamesWrittenFile ==
    pc = "main_done" =>
        \A k \in 1..Len(log) :
            log[k].outcome = "saved" =>
                LET url == rstrip_slash(posts[log[k].post].URL)
                IN  /\ url \in DOMAIN url_to_filename
                    /\ url_to_filename[url] \o MdSuffix = log[k].filename

====
